---- MODULE Spec2Model ----
(***************************************************************************)
(* Model of the pagination engine of zendesk_sdk (pagination.py) and of    *)
(* the limited search / export / enriched-search sequences built on it     *)
(* (clients/search.py, clients/tickets.py).                                *)
(*                                                                         *)
(* Python's Optional values are modelled as sequences of length <= 1:      *)
(* None is <<>> and a present value v is <<v>>.  A dict is a function      *)
(* whose domain is the set of keys that are present.                       *)
(***************************************************************************)
EXTENDS Integers, Sequences, FiniteSets, TLC

\* ---------------------------------------------------------------- bounds
MaxItems == 2
MaxFetches == 3
MaxChainFetches == 2
MaxDirect == 1
MaxPage == 2
MaxPerPage == 2
MaxCount == 5
MaxLimit == 2
MaxTickets == 2
Overflow == 1

\* per_page: int = 100, the default page size of every paginator
DefaultPerPage == 100

\* list(set(user_ids))[:100], the most ids one users/show_many call carries
MaxIdsPerCall == 100

\* ------------------------------------------------------- optional values
None == <<>>
Some(x) == <<x>>
Val(o) == o[1]

\* Python truthiness of an Optional[str]: None and "" are falsy.
Truthy(o) == o # None /\ Val(o) # ""

\* Python `a or b` on two Optional[str] values.
PyOr(a, b) == IF Truthy(a) THEN a ELSE b

\* Python str() of a links["next"] value: str(None) is the text "None".
PyStr(o) == IF o = None THEN "None" ELSE Val(o)

\* dict.get(key) / dict.get(key, default)
DictGet(d, key, default) == IF key \in DOMAIN d THEN d[key] ELSE default

EmptyDict == <<>>

RECURSIVE Flatten(_)
Flatten(ss) == IF ss = <<>> THEN <<>> ELSE Head(ss) \o Flatten(Tail(ss))

RECURSIVE SelectSeqBy(_, _)
SelectSeqBy(s, rt) ==
    IF s = <<>> THEN <<>>
    ELSE IF Head(s)[3] = rt THEN <<Head(s)>> \o SelectSeqBy(Tail(s), rt)
         ELSE SelectSeqBy(Tail(s), rt)

\* ------------------------------------------------------------- the server
Kinds == {"offset", "cursor", "export"}
Ops == {"paginator", "reuse", "search", "export", "search_enriched", "stream"}
Tokens == {"abc", "def"}
OptToken == {None} \cup {Some(t) : t \in Tokens}
OptBool == {None, Some(TRUE), Some(FALSE)}
OptCount == {None} \cup {Some(c) : c \in 0..MaxCount}
LinksSet == {EmptyDict, "next" :> None, "next" :> Some("url")}
HttpStatuses == {404, 422, 500}

\* Result types a search page can mix; only the typed search sequences
\* look at result_type, so other pages carry tickets only.
ResultTypes(o) == IF o \in {"search", "search_enriched"} THEN {"ticket", "user"} ELSE {"ticket"}

\* The pages of the enriched search followed call by call: an empty page, a
\* page whose one result is no ticket, or a full page of tickets.
StreamPages(k) ==
    {<<>>, <<<<k, 1, "user">>>>, [i \in 1..MaxItems |-> <<k, i, "ticket">>]}

\* The items of the k-th GET: item i of that page is <<k, i, result_type>>.
PageItems(k, o) ==
    IF o = "stream" THEN StreamPages(k)
    ELSE UNION {{[i \in 1..n |-> <<k, i, f[i]>>] : f \in [1..n -> ResultTypes(o)]} :
                   n \in 0..MaxItems}

\* The full variety of the pagination fields is given to a bare paginator;
\* the typed sequences vary the result types of the items instead.
\* The enriched search followed call by call is told by has_more alone whether
\* there is another page.
Counts(o) ==
    IF o = "paginator" THEN OptCount
    ELSE IF o = "stream" THEN {None}
    ELSE {None, Some(0), Some(MaxCount)}
Flags(o) == IF o = "stream" THEN {Some(TRUE), Some(FALSE)} ELSE OptBool
NextLinks(o) == IF o = "paginator" THEN {None, Some("url")} ELSE {None}

OffsetResponses(k, o) ==
    {[items |-> it, has_more |-> hm, count |-> c, next_page |-> np] :
        it \in PageItems(k, o), hm \in Flags(o), c \in Counts(o),
        np \in NextLinks(o)}

\* A caller that reuses an instance is given the cursor in next_cursor only;
\* the other spellings are left to the single iteration of a bare paginator.
AfterCursors(o) == IF o = "reuse" THEN {None} ELSE {None, Some("xyz")}
NextLinkSets(o) == IF o = "reuse" THEN {EmptyDict} ELSE LinksSet

CursorResponses(k, o) ==
    {[items |-> it, has_more |-> hm, count |-> None, next_page |-> None,
      next_cursor |-> nc, after_cursor |-> ac, links |-> l] :
        it \in PageItems(k, o), hm \in OptBool, nc \in OptToken,
        ac \in AfterCursors(o), l \in NextLinkSets(o)}

\* meta of an export response: has_more and after_cursor may each be absent.
MetaSet ==
    {EmptyDict} \cup
    {"has_more" :> hm : hm \in OptBool} \cup
    {"after_cursor" :> ac : ac \in OptToken} \cup
    {("has_more" :> hm) @@ ("after_cursor" :> ac) : hm \in OptBool, ac \in OptToken}

ExportResponses(k, o) ==
    {[items |-> it, meta |-> m, links |-> l, next_cursor |-> nc] :
        it \in PageItems(k, o), m \in MetaSet,
        l \in {EmptyDict} \cup {"next" :> u : u \in NextLinks(o) \ {None}},
        nc \in {None} \cup (IF o = "paginator" THEN {Some("zzz")} ELSE {})}

Responses(knd, k, o) ==
    CASE knd = "offset" -> OffsetResponses(k, o)
      [] knd = "cursor" -> CursorResponses(k, o)
      [] knd = "export" -> ExportResponses(k, o)

\* Errors http_client.get can raise: a typed HTTP error, or any other exception.
HTTPException(s) == [type |-> "ZendeskHTTPException", status_code |-> s, message |-> <<"HTTP", s>>]
OtherException == [type |-> "Exception", status_code |-> 0, message |-> <<"timeout">>]
TransportErrors == {HTTPException(s) : s \in HttpStatuses} \cup {OtherException}

\* ---------------------------------------------------------- PaginationInfo
PaginationInfo(hm, c, np) == [has_more |-> hm, count |-> c, next_page |-> np]

from_response(resp) ==
    PaginationInfo(DictGet(resp, "has_more", None), DictGet(resp, "count", None),
                   DictGet(resp, "next_page", None))

\* ------------------------------------------------------------- Paginator
\* Paginator.__init__ / CursorPaginator.__init__ / SearchExportPaginator.__init__
NewPaginator(knd, pth, pp) ==
    [kind |-> knd, path |-> pth,
     params |-> IF pth = "search.json" THEN "query" :> "q"
                ELSE IF pth = "incremental/tickets.json" THEN "start_time" :> 0
                ELSE EmptyDict,
     per_page |-> pp, current_page |-> 1, pagination_info |-> None,
     next_cursor |-> None, has_started |-> FALSE, next_url |-> None,
     query |-> "q", filter_type |-> "ticket"]

\* Variants of HasMorePagesOffset with a plausible slip: the count consulted
\* before the has_more flag; the page total rounded down.
HasMorePagesOffset_CountFirst(p) ==
    IF p.pagination_info = None THEN FALSE
    ELSE LET info == Val(p.pagination_info) IN
         IF info.count # None
         THEN p.current_page < (Val(info.count) + p.per_page - 1) \div p.per_page
         ELSE IF info.has_more # None THEN Val(info.has_more) ELSE TRUE

HasMorePagesOffset_Floor(p) ==
    IF p.pagination_info = None THEN FALSE
    ELSE LET info == Val(p.pagination_info) IN
         IF info.has_more # None THEN Val(info.has_more)
         ELSE IF info.count # None
              THEN p.current_page < Val(info.count) \div p.per_page
              ELSE TRUE

HasMorePagesOffset(p) ==
    IF p.pagination_info = None THEN FALSE
    ELSE LET info == Val(p.pagination_info) IN
         IF info.has_more # None THEN Val(info.has_more)
         ELSE IF info.count # None
              THEN p.current_page < (Val(info.count) + p.per_page - 1) \div p.per_page
              ELSE TRUE

HasMorePagesCursor(p) ==
    IF ~p.has_started THEN TRUE
    ELSE IF p.pagination_info # None /\ Val(p.pagination_info).has_more # None
         THEN Val(Val(p.pagination_info).has_more)
         ELSE p.next_cursor # None

HasMorePagesExport(p) ==
    IF ~p.has_started THEN TRUE
    ELSE IF p.pagination_info # None /\ Val(p.pagination_info).has_more # None
         THEN Val(Val(p.pagination_info).has_more)
         ELSE p.next_cursor # None

HasMorePages(p) ==
    CASE p.kind = "offset" -> HasMorePagesOffset(p)
      [] p.kind = "cursor" -> HasMorePagesCursor(p)
      [] p.kind = "export" -> HasMorePagesExport(p)

UpdateOffset(p, resp) == [p EXCEPT !.pagination_info = Some(from_response(resp))]

\* Variant of UpdateCursor that records the metadata but not the cursor.
UpdateCursor_KeepCursor(p, resp) ==
    [p EXCEPT !.pagination_info = Some(from_response(resp)), !.has_started = TRUE]

UpdateCursor(p, resp) ==
    LET nc == PyOr(resp.next_cursor, resp.after_cursor)
        nc2 == IF ~Truthy(nc) /\ "next" \in DOMAIN resp.links
               THEN Some(PyStr(resp.links["next"])) ELSE nc
    IN [p EXCEPT !.pagination_info = Some(from_response(resp)),
                 !.next_cursor = nc2, !.has_started = TRUE]

UpdateExport(p, resp) ==
    LET url == DictGet(resp.links, "next", None) IN
    [p EXCEPT !.next_url = url,
              !.next_cursor = DictGet(resp.meta, "after_cursor", None),
              !.pagination_info =
                  Some(PaginationInfo(DictGet(resp.meta, "has_more", Some(FALSE)), None, url)),
              !.has_started = TRUE]

UpdatePaginationState(p, resp) ==
    CASE p.kind = "offset" -> UpdateOffset(p, resp)
      [] p.kind = "cursor" -> UpdateCursor(p, resp)
      [] p.kind = "export" -> UpdateExport(p, resp)

GetPageParamsOffset(p) == ("page" :> p.current_page) @@ ("per_page" :> p.per_page)

GetPageParamsCursor(p) ==
    IF Truthy(p.next_cursor) /\ p.has_started
    THEN ("per_page" :> p.per_page) @@ ("cursor" :> Val(p.next_cursor))
    ELSE "per_page" :> p.per_page

GetPageParamsExport(p) ==
    LET params == ("query" :> p.query) @@ ("filter[type]" :> p.filter_type)
                      @@ ("page[size]" :> p.per_page)
    IN IF Truthy(p.next_cursor) /\ p.has_started
       THEN params @@ ("page[after]" :> Val(p.next_cursor))
       ELSE params

GetPageParams(p) ==
    CASE p.kind = "offset" -> GetPageParamsOffset(p)
      [] p.kind = "cursor" -> GetPageParamsCursor(p)
      [] p.kind = "export" -> GetPageParamsExport(p)

\* params.copy(); params.update(page params): the page params win.
BuildPageParams(p) == GetPageParams(p) @@ p.params

\* Variant of ExtractItems that loses the first item of a page.
ExtractItems_DropFirst(p, resp) == IF resp.items = <<>> THEN <<>> ELSE Tail(resp.items)

ExtractItems(p, resp) == resp.items

AdvanceToNextPage(p) ==
    IF p.kind = "offset" THEN [p EXCEPT !.current_page = p.current_page + 1] ELSE p

ZendeskPaginationException(p, e) ==
    [type |-> "ZendeskPaginationException",
     message |-> <<"Error during pagination: ">> \o e.message,
     page_info |-> ("page" :> p.current_page) @@ ("per_page" :> p.per_page)]

\* Variant of GetPageRaise in which get_page wraps the error itself.
GetPageRaise_Wrapped(p, e) == ZendeskPaginationException(p, e)

\* get_page has no handler of its own: what http_client.get raises leaves it unchanged.
GetPageRaise(p, e) == e

\* Variant of IterHandleError that keeps the special case of status 422 to
\* the search listing.
IterHandleError_SearchOnly(p, e) ==
    IF e.type = "ZendeskHTTPException" /\ e.status_code = 422 /\ p.path = "search.json"
    THEN [outcome |-> "break", exc |-> None]
    ELSE [outcome |-> "raise", exc |-> Some(ZendeskPaginationException(p, e))]

\* Variant of IterHandleError without the special case of status 422.
IterHandleError_No422(p, e) ==
    [outcome |-> "raise", exc |-> Some(ZendeskPaginationException(p, e))]

\* The except clauses of __aiter__: "break" on a 422, otherwise the wrapped error.
IterHandleError(p, e) ==
    IF e.type = "ZendeskHTTPException" /\ e.status_code = 422
    THEN [outcome |-> "break", exc |-> None]
    ELSE [outcome |-> "raise", exc |-> Some(ZendeskPaginationException(p, GetPageRaise(p, e)))]

\* Variant of LimitReached that stops one item late.
LimitReached_Late(l, c) == l # None /\ Val(l) # 0 /\ c > Val(l)

\* The limit test of the limited sequences: `if limit and count >= limit`.
LimitReached(l, c) == l # None /\ Val(l) # 0 /\ c >= Val(l)

\* The result_type filter of SearchClient.tickets/users/organizations; the
\* export sequences and a bare paginator hand every item on.
WrapperAccepts(o, item) == o # "search" \/ item[3] = "ticket"

\* get_page(page): `if page is not None: self._current_page = page`
SetPage(p, page) == IF page # None THEN [p EXCEPT !.current_page = Val(page)] ELSE p

Request(p) == [path |-> p.path, params |-> BuildPageParams(p)]

\* ------------------------------------------------------------------ state
VARIABLES
    op,              \* entry point in use: a bare paginator or one of the sequences
    limit,           \* the limit argument of a limited sequence
    pg,              \* the paginator object
    pc,              \* position of the caller / generator
    pending,         \* items of the current page (or batch) not yet yielded
    yielded,         \* items the paginator's own iteration has yielded
    out,             \* items handed to the caller of the sequence
    count,           \* the counter of a limited sequence
    requests,        \* every GET the paginator issued, in order
    pages,           \* item lists of the pages fetched by the current iteration
    last_response,   \* the last response body received
    transport_error, \* the last error http_client.get raised
    exc,             \* the exception that reached the caller, if any
    iter_base,       \* number of GETs issued before the current iteration began
    same_count       \* summary of the (has_more, count) fields seen by the iteration

\* The batch enrichment of one page of tickets (TicketsClient, tickets.py).
VARIABLES
    batch,           \* the tickets handed to the enrichment, in order
    epc,             \* position of the enrichment
    ticket_users,    \* the user map the users batch call returned
    user_calls,      \* the id lists of the users/show_many GETs issued, in order
    comment_calls,   \* the ticket ids of the comments GETs issued, in order
    results,         \* per comment fetch: its result, once it has completed
    completion,      \* the comment fetches in their order of completion
    composites,      \* the enriched tickets the batch enrichment returned
    eexc,            \* the exception the enrichment raised, if any
    calls            \* every GET the enrichment issued, in order

pvars == <<op, limit, pg, pc, pending, yielded, out, count, requests, pages,
           last_response, transport_error, exc, iter_base, same_count>>

evars == <<batch, epc, ticket_users, user_calls, comment_calls, results,
           completion, composites, eexc, calls>>

vars == <<pvars, evars>>

\* A paginator handed to the caller (get_users, search.all, the incremental
\* and the export paginator).
PaginatorEntryPoints ==
    {<<"paginator", "offset", "users.json">>,
     <<"paginator", "offset", "search.json">>,
     <<"paginator", "cursor", "incremental/tickets.json">>,
     <<"paginator", "export", "search/export.json">>}

\* The same paginators in the hands of a caller that uses one instance for
\* several get_page calls and iterations.
ReuseEntryPoints ==
    {<<"reuse", "offset", "users.json">>,
     <<"reuse", "cursor", "incremental/tickets.json">>,
     <<"reuse", "export", "search/export.json">>}

\* SearchClient.tickets/users/organizations and SearchClient.export_*.
LimitedEntryPoints ==
    {<<"search", "offset", "search.json">>,
     <<"export", "export", "search/export.json">>}

\* TicketsClient.search_enriched.
EnrichedEntryPoints == {<<"search_enriched", "offset", "search.json">>}

\* TicketsClient.search_enriched with every call of its enrichment followed.
StreamEntryPoints == {<<"stream", "offset", "search.json">>}

PerPages(knd) == IF knd = "offset" THEN 1..MaxPerPage ELSE {DefaultPerPage}

OptLimit == {None} \cup {Some(n) : n \in 0..MaxLimit}

NoSummary == [st |-> "none", c |-> 0]

\* Summary of the responses of one iteration: "same" while every response so
\* far carried no has_more flag and one and the same count c.
Summarise(sc, resp) ==
    IF "count" \notin DOMAIN resp \/ "has_more" \notin DOMAIN resp THEN [st |-> "mixed", c |-> 0]
    ELSE IF resp.has_more # None \/ resp.count = None THEN [st |-> "mixed", c |-> 0]
    ELSE IF sc.st = "none" THEN [st |-> "same", c |-> Val(resp.count)]
    ELSE IF sc.st = "same" /\ sc.c = Val(resp.count) THEN sc
    ELSE [st |-> "mixed", c |-> 0]

InitPaginator(eps) ==
    /\ \E ep \in eps :
          /\ op = ep[1]
          /\ \E pp \in PerPages(ep[2]) : pg = NewPaginator(ep[2], ep[3], pp)
    /\ limit \in IF op \in {"paginator", "reuse", "stream"} THEN {None} ELSE OptLimit
    /\ pc = "idle"
    /\ pending = <<>>
    /\ yielded = <<>>
    /\ out = <<>>
    /\ count = 0
    /\ requests = <<>>
    /\ pages = <<>>
    /\ last_response = None
    /\ transport_error = None
    /\ exc = None
    /\ iter_base = 0
    /\ same_count = NoSummary

\* No enrichment is under way.
EnrichOff ==
    /\ batch = <<>>
    /\ epc = "off"
    /\ ticket_users = EmptyDict
    /\ user_calls = <<>>
    /\ comment_calls = <<>>
    /\ results = <<>>
    /\ completion = <<>>
    /\ composites = <<>>
    /\ eexc = None
    /\ calls = <<>>

InitFrom(eps) == InitPaginator(eps) /\ EnrichOff


\* The model stops issuing GETs at a bound: an offset listing may fetch
\* MaxFetches pages, every other sequence MaxChainFetches.
FetchBound == IF op = "paginator" /\ pg.kind = "offset" THEN MaxFetches ELSE MaxChainFetches

CanFetch == Len(requests) < FetchBound

PageArgs == {None} \cup {Some(n) : n \in 1..MaxPage}

\* ----------------------------------------------- get_page called directly
DirectGetPageOk ==
    /\ op = "paginator" /\ pc = "idle" /\ Len(requests) < MaxDirect
    /\ \E page \in PageArgs, resp \in Responses(pg.kind, Len(requests) + 1, op) :
          LET p1 == SetPage(pg, page) IN
          /\ requests' = Append(requests, Request(p1))
          /\ pg' = UpdatePaginationState(p1, resp)
          /\ pending' = ExtractItems(p1, resp)
          /\ last_response' = Some(resp)
    /\ exc' = None
    /\ UNCHANGED <<evars, op, limit, pc, yielded, out, count, pages, transport_error,
                   iter_base, same_count>>

DirectGetPageFail ==
    /\ op = "paginator" /\ pc = "idle" /\ Len(requests) < MaxDirect
    /\ \E page \in PageArgs, e \in TransportErrors :
          LET p1 == SetPage(pg, page) IN
          /\ requests' = Append(requests, Request(p1))
          /\ pg' = p1
          /\ transport_error' = Some(e)
          /\ exc' = Some(GetPageRaise(p1, e))
    /\ UNCHANGED <<evars, op, limit, pc, pending, yielded, out, count, pages, last_response,
                   iter_base, same_count>>

\* ------------------------------------------------- Paginator.__aiter__
\* `async for` over the paginator, bare or inside a limited sequence.
IterStart ==
    /\ op \in {"paginator", "reuse", "search", "export"} /\ pc = "idle"
    /\ pg' = [pg EXCEPT !.current_page = 1]
    /\ pc' = "fetch"
    /\ pending' = <<>> /\ yielded' = <<>> /\ out' = <<>> /\ count' = 0
    /\ pages' = <<>> /\ exc' = None /\ transport_error' = None
    /\ iter_base' = Len(requests) /\ same_count' = NoSummary
    /\ UNCHANGED <<evars, op, limit, requests, last_response>>

IterFetchOk ==
    /\ pc = "fetch" /\ CanFetch
    /\ \E resp \in Responses(pg.kind, Len(requests) + 1, op) :
          /\ requests' = Append(requests, Request(pg))
          /\ pg' = UpdatePaginationState(pg, resp)
          /\ pending' = ExtractItems(pg, resp)
          /\ pages' = Append(pages, resp.items)
          /\ last_response' = Some(resp)
          /\ same_count' = Summarise(same_count, resp)
    /\ pc' = "page"
    /\ UNCHANGED <<evars, op, limit, yielded, out, count, transport_error, exc, iter_base>>

IterFetchFail ==
    /\ pc = "fetch" /\ CanFetch
    /\ \E e \in TransportErrors :
          LET h == IterHandleError(pg, e) IN
          /\ requests' = Append(requests, Request(pg))
          /\ transport_error' = Some(e)
          /\ pc' = IF h.outcome = "break" THEN "done" ELSE "raised"
          /\ exc' = h.exc
    /\ UNCHANGED <<evars, op, limit, pg, pending, yielded, out, count, pages, last_response,
                   iter_base, same_count>>

\* `for item in items: yield item`, and the body of the sequence around it.
IterYield ==
    /\ pc = "page" /\ pending # <<>>
    /\ yielded' = Append(yielded, Head(pending))
    /\ pending' = Tail(pending)
    /\ IF WrapperAccepts(op, Head(pending))
       THEN out' = Append(out, Head(pending)) /\ pc' = "yielded"
       ELSE out' = out /\ pc' = "page"
    /\ UNCHANGED <<evars, op, limit, pg, count, requests, pages, last_response,
                   transport_error, exc, iter_base, same_count>>

\* The caller asks for the next item: `count += 1; if limit and count >= limit: return`.
IterResume ==
    /\ pc = "yielded"
    /\ IF op \in {"paginator", "reuse"}
       THEN count' = count /\ pc' = "page"
       ELSE /\ count' = count + 1
            /\ pc' = IF LimitReached(limit, count + 1) THEN "done" ELSE "page"
    /\ UNCHANGED <<evars, op, limit, pg, pending, yielded, out, requests, pages, last_response,
                   transport_error, exc, iter_base, same_count>>

\* `if not self._has_more_pages(): break` / `self._advance_to_next_page()`
IterEndOfPage ==
    /\ pc = "page" /\ pending = <<>>
    /\ IF HasMorePages(pg)
       THEN pg' = AdvanceToNextPage(pg) /\ pc' = "fetch"
       ELSE pg' = pg /\ pc' = "done"
    /\ UNCHANGED <<evars, op, limit, pending, yielded, out, count, requests, pages,
                   last_response, transport_error, exc, iter_base, same_count>>

\* --------------------------------------- a paginator instance used again
\* get_page called at any time between iterations, on the state the earlier
\* calls and iterations left behind.
RepeatGetPageOk ==
    /\ op = "reuse" /\ pc = "idle" /\ CanFetch
    /\ \E page \in PageArgs, resp \in Responses(pg.kind, Len(requests) + 1, op) :
          LET p1 == SetPage(pg, page) IN
          /\ requests' = Append(requests, Request(p1))
          /\ pg' = UpdatePaginationState(p1, resp)
          /\ pending' = ExtractItems(p1, resp)
          /\ last_response' = Some(resp)
    /\ exc' = None
    /\ UNCHANGED <<evars, op, limit, pc, yielded, out, count, pages, transport_error,
                   iter_base, same_count>>

RepeatGetPageFail ==
    /\ op = "reuse" /\ pc = "idle" /\ CanFetch
    /\ \E page \in PageArgs, e \in TransportErrors :
          LET p1 == SetPage(pg, page) IN
          /\ requests' = Append(requests, Request(p1))
          /\ pg' = p1
          /\ transport_error' = Some(e)
          /\ exc' = Some(GetPageRaise(p1, e))
    /\ UNCHANGED <<evars, op, limit, pc, pending, yielded, out, count, pages, last_response,
                   iter_base, same_count>>

\* The caller is done with an iteration (it ended, it raised, or the caller
\* broke out of the `async for` after an item) and keeps the paginator object,
\* whose fields stay as the iteration left them.
IterLeave ==
    /\ op = "reuse" /\ pc \in {"yielded", "done", "raised"}
    /\ pc' = "idle"
    /\ UNCHANGED <<evars, op, limit, pg, pending, yielded, out, count, requests, pages,
                   last_response, transport_error, exc, iter_base, same_count>>

\* -------------------------------------------- TicketsClient.search_enriched
SEStart ==
    /\ op \in {"search_enriched", "stream"} /\ pc = "idle"
    /\ pc' = "se_fetch"
    /\ UNCHANGED <<evars, op, limit, pg, pending, yielded, out, count, requests, pages,
                   last_response, transport_error, exc, iter_base, same_count>>

\* _paginate_enriched: `items = await paginator.get_page(); if items: yield items`,
\* then the ticket filter of search_enriched (`if not tickets: continue`).
SEFetchOk ==
    /\ pc = "se_fetch" /\ CanFetch
    /\ \E resp \in Responses(pg.kind, Len(requests) + 1, op) :
          LET tickets == SelectSeqBy(ExtractItems(pg, resp), "ticket") IN
          /\ requests' = Append(requests, Request(pg))
          /\ pg' = UpdatePaginationState(pg, resp)
          /\ pages' = Append(pages, resp.items)
          /\ last_response' = Some(resp)
          /\ pending' = tickets
          /\ pc' = IF tickets # <<>> THEN "se_enrich" ELSE "se_check"
    /\ UNCHANGED <<evars, op, limit, yielded, out, count, transport_error, exc, iter_base,
                   same_count>>

\* _paginate_enriched: `except Exception: break`
SEFetchFail ==
    /\ pc = "se_fetch" /\ CanFetch
    /\ \E e \in TransportErrors :
          /\ requests' = Append(requests, Request(pg))
          /\ transport_error' = Some(e)
    /\ pc' = "done"
    /\ UNCHANGED <<evars, op, limit, pg, pending, yielded, out, count, pages, last_response,
                   exc, iter_base, same_count>>

\* The batch enrichment of one page succeeds: one composite per ticket.
SEEnrichOk ==
    /\ op = "search_enriched" /\ pc = "se_enrich"
    /\ pc' = "se_batch"
    /\ UNCHANGED <<evars, op, limit, pg, pending, yielded, out, count, requests, pages,
                   last_response, transport_error, exc, iter_base, same_count>>

\* A call of the batch enrichment raises: nothing in search_enriched catches it.
SEEnrichFail ==
    /\ op = "search_enriched" /\ pc = "se_enrich"
    /\ \E e \in TransportErrors :
          /\ transport_error' = Some(e)
          /\ exc' = Some(e)
    /\ pc' = "raised"
    /\ UNCHANGED <<evars, op, limit, pg, pending, yielded, out, count, requests, pages,
                   last_response, iter_base, same_count>>

\* `for enriched in enriched_batch: yield enriched`
SEYield ==
    /\ pc = "se_batch" /\ pending # <<>>
    /\ out' = Append(out, Head(pending))
    /\ pending' = Tail(pending)
    /\ pc' = "se_yielded"
    /\ UNCHANGED <<evars, op, limit, pg, yielded, count, requests, pages, last_response,
                   transport_error, exc, iter_base, same_count>>

\* Variant of SEResume that goes for the next page as soon as one composite
\* of the batch has been taken.
SEResume_Prefetch ==
    /\ pc = "se_yielded"
    /\ count' = count + 1
    /\ pc' = IF LimitReached(limit, count + 1) THEN "done" ELSE "se_check"
    /\ UNCHANGED <<evars, op, limit, pg, pending, yielded, out, requests, pages, last_response,
                   transport_error, exc, iter_base, same_count>>

\* `count += 1; if limit and count >= limit: return`, else the next composite,
\* or back into _paginate_enriched when the batch is used up.
SEResume ==
    /\ pc = "se_yielded"
    /\ count' = count + 1
    /\ pc' = IF LimitReached(limit, count + 1) THEN "done"
             ELSE IF pending = <<>> THEN "se_check" ELSE "se_batch"
    /\ UNCHANGED <<evars, op, limit, pg, pending, yielded, out, requests, pages, last_response,
                   transport_error, exc, iter_base, same_count>>

\* _paginate_enriched: `if not paginator._has_more_pages(): break` / advance
SECheck ==
    /\ pc = "se_check"
    /\ IF HasMorePages(pg)
       THEN pg' = AdvanceToNextPage(pg) /\ pc' = "se_fetch"
       ELSE pg' = pg /\ pc' = "done"
    /\ UNCHANGED <<evars, op, limit, pending, yielded, out, count, requests, pages,
                   last_response, transport_error, exc, iter_base, same_count>>

\* ------------------------------------------- TicketsClient batch enrichment
\* User ids the server knows; the highest ones only occur in the oversized
\* collaborator list.
MaxUserId == MaxIdsPerCall + Overflow
UserIds == 1..MaxUserId

\* Python truthiness of an Optional[int]: None and 0 are falsy.
TruthyInt(o) == o # None /\ Val(o) # 0

Ticket(i, r, a, sb, c, f) ==
    [id |-> i, requester_id |-> r, assignee_id |-> a, submitter_id |-> sb,
     collaborator_ids |-> c, follower_ids |-> f]

\* What the tickets of a search page can reference.
TicketProfiles ==
    {Ticket(None, Some(10), None, None, {}, {}),
     Ticket(None, Some(20), None, None, {}, {}),
     Ticket(None, Some(10), Some(10), Some(30), {}, {}),
     Ticket(None, Some(20), Some(10), None, {30, 40}, {20, 50}),
     Ticket(None, None, None, None, {}, {})}

\* The ticket at position i of a page has the id 100 + i, or none at all.
TicketsAt(i) ==
    {[t EXCEPT !.id = tid] : t \in TicketProfiles, tid \in {None, Some(100 + i)}}

SmallBatches ==
    UNION {{b \in [1..n -> UNION {TicketsAt(i) : i \in 1..n}] :
               \A i \in 1..n : b[i] \in TicketsAt(i)} : n \in 1..MaxTickets}

\* A ticket whose collaborators are more users than one call can carry, two
\* of them referenced a second time as requester, assignee and follower.
BigTicket == Ticket(Some(101), Some(10), Some(10), None, UserIds, {20})

BigBatches == {<<BigTicket>>}

Batches == SmallBatches \cup BigBatches

\* The ids one ticket references: the five `if ticket.x:` tests.
TicketUserIds(t) ==
    (IF TruthyInt(t.requester_id) THEN {Val(t.requester_id)} ELSE {})
    \cup (IF TruthyInt(t.assignee_id) THEN {Val(t.assignee_id)} ELSE {})
    \cup (IF TruthyInt(t.submitter_id) THEN {Val(t.submitter_id)} ELSE {})
    \cup t.collaborator_ids
    \cup t.follower_ids

\* Variant of CollectUserIds that leaves the followers out.
CollectUserIds_NoFollowers(tickets) ==
    UNION {TicketUserIds([tickets[i] EXCEPT !.follower_ids = {}]) : i \in DOMAIN tickets}

\* _collect_user_ids_from_tickets: the set user_ids over all tickets.
CollectUserIds(tickets) == UNION {TicketUserIds(tickets[i]) : i \in DOMAIN tickets}

\* A list of the elements of a set of ids, each once (here: ascending).
ListOfSet(S) ==
    LET In(i) == i \in S IN SelectSeq([i \in 1..MaxUserId |-> i], In)

RECURSIVE DropAny(_, _)
DropAny(S, k) == IF k = 0 THEN {S} ELSE UNION {DropAny(S \ {x}, k - 1) : x \in S}

\* Variant of UniqueIds with the cap one too high.
UniqueIds_CapPlusOne(S) ==
    IF Cardinality(S) <= MaxIdsPerCall + 1 THEN {ListOfSet(S)}
    ELSE {ListOfSet(K) : K \in DropAny(S, Cardinality(S) - (MaxIdsPerCall + 1))}

\* list(set(user_ids))[:100]: a set is listed in no specified order, so the
\* slice may keep any MaxIdsPerCall of the ids.
UniqueIds(S) ==
    IF Cardinality(S) <= MaxIdsPerCall THEN {ListOfSet(S)}
    ELSE {ListOfSet(K) : K \in DropAny(S, Cardinality(S) - MaxIdsPerCall)}

SeqToSet(q) == {q[i] : i \in DOMAIN q}

\* A user record as a response sideloads it: the id and which call gave it.
User(uid, from) == [id |-> uid, from |-> from]

\* _extract_users_from_response of a users/show_many response: the users asked for.
ShowManyUsers(ids) == [u \in SeqToSet(ids) |-> User(u, <<"show_many">>)]

\* The answers to GET tickets/{id}/comments.json?include=users: the comments
\* of that ticket and their authors, who may or may not be users of the ticket.
CommentResponses(tid) ==
    {[comments |-> <<>>, users |-> EmptyDict],
     [comments |-> <<[ticket_id |-> tid, author_id |-> 10],
                     [ticket_id |-> tid, author_id |-> 60]>>,
      users |-> [u \in {10, 60} |-> User(u, <<"comments", tid>>)]]}

\* Variant of ValidTickets that stops at the first ticket without an id.
ValidTickets_UpToFirstMissing(tickets) ==
    LET missing == {i \in DOMAIN tickets : tickets[i].id = None}
        stop == IF missing = {} THEN Len(tickets) + 1
                ELSE CHOOSE i \in missing : \A j \in missing : i <= j IN
    SubSeq(tickets, 1, stop - 1)

\* valid_tickets = [t for t in tickets if t.id is not None]
ValidTickets(tickets) ==
    LET HasId(t) == t.id # None IN SelectSeq(tickets, HasId)

Restrict(f, S) == [x \in (DOMAIN f) \cap S |-> f[x]]

\* Variant of EnrichedTicket in which the ticket-side record wins.
EnrichedTicket_TicketSideWins(ticket, tusers, res) ==
    [ticket |-> ticket, comments |-> res.comments,
     users |-> Restrict(tusers, TicketUserIds(ticket)) @@ res.users]

\* Variant of EnrichedTicket that carries the whole batch's user map.
EnrichedTicket_AllUsers(ticket, tusers, res) ==
    [ticket |-> ticket, comments |-> res.comments, users |-> res.users @@ tusers]

\* The loop body of _build_enriched_tickets: {**this_ticket_users, **comment_users}
EnrichedTicket(ticket, tusers, res) ==
    [ticket |-> ticket, comments |-> res.comments,
     users |-> res.users @@ Restrict(tusers, TicketUserIds(ticket))]

\* Variant of ZipResults that pairs the tickets with the results as they came in.
ZipResults_ByCompletion(valid, res, order, tusers) ==
    [i \in DOMAIN valid |-> EnrichedTicket(valid[i], tusers, Val(res[order[i]]))]

\* zip(valid_tickets, results): asyncio.gather returns the results in the order
\* of the awaitables, whatever the order of completion.
ZipResults(valid, res, order, tusers) ==
    [i \in DOMAIN valid |-> EnrichedTicket(valid[i], tusers, Val(res[i]))]

\* A GET of the enrichment as http_client.get receives it: path and params.
Call(path, params) == [path |-> path, params |-> params]

\* _fetch_users_batch: self._get(f"users/show_many.json?ids={ids_str}")
ShowManyCall(ids) == Call(<<"users/show_many.json", ids>>, EmptyDict)

\* _fetch_comments_with_users: tickets/{ticket_id}/comments.json, include=users
CommentsCall(tid) == Call(<<"tickets", tid, "comments.json">>, "include" :> "users")

\* Variant of IssuedByGather that starts the first fetch only, the way a loop
\* awaiting one fetch after the other would.
IssuedByGather_FirstOnly(valid) == <<Val(valid[1].id)>>

\* comment_tasks handed to asyncio.gather: one fetch per valid ticket, each
\* started before gather waits for any of them.
IssuedByGather(valid) == [i \in DOMAIN valid |-> Val(valid[i].id)]

\* _fetch_users_batch: `if not user_ids: return {}`, no call.
FetchUsersNone ==
    /\ epc = "users" /\ CollectUserIds(batch) = {}
    /\ ticket_users' = EmptyDict
    /\ epc' = "build"
    /\ UNCHANGED <<pvars, batch, user_calls, comment_calls, results, completion,
                   composites, eexc, calls>>

\* _fetch_users_batch: one GET users/show_many.json?ids=...
FetchUsersOk ==
    /\ epc = "users" /\ CollectUserIds(batch) # {}
    /\ \E ids \in UniqueIds(CollectUserIds(batch)) :
          /\ user_calls' = Append(user_calls, ids)
          /\ calls' = Append(calls, ShowManyCall(ids))
          /\ ticket_users' = ShowManyUsers(ids)
    /\ epc' = "build"
    /\ UNCHANGED <<pvars, batch, comment_calls, results, completion, composites, eexc>>

\* The users GET raises: nothing between it and the caller catches.
FetchUsersFail ==
    /\ epc = "users" /\ CollectUserIds(batch) # {}
    /\ \E ids \in UniqueIds(CollectUserIds(batch)) :
          /\ user_calls' = Append(user_calls, ids)
          /\ calls' = Append(calls, ShowManyCall(ids))
    /\ \E e \in TransportErrors : eexc' = Some(e)
    /\ epc' = "raised"
    /\ UNCHANGED <<pvars, batch, ticket_users, comment_calls, results, completion,
                   composites>>

\* _build_enriched_tickets up to `await asyncio.gather(*comment_tasks)`: one
\* comments GET per ticket with an id, all issued before any is awaited; with
\* no such ticket it returns [] at once.
GatherStart ==
    /\ epc = "build"
    /\ LET valid == ValidTickets(batch) IN
       IF valid = <<>>
       THEN /\ composites' = <<>>
            /\ epc' = "returned"
            /\ UNCHANGED <<comment_calls, results, calls>>
       ELSE /\ comment_calls' = IssuedByGather(valid)
            /\ calls' = calls \o [i \in DOMAIN comment_calls' |->
                                      CommentsCall(comment_calls'[i])]
            /\ results' = [i \in DOMAIN valid |-> None]
            /\ epc' = "gather"
            /\ UNCHANGED composites
    /\ UNCHANGED <<pvars, batch, ticket_users, user_calls, completion, eexc>>

\* One of the comment fetches in flight completes, in any order.
CommentFetchOk ==
    /\ epc \in {"gather", "raised"}
    /\ \E i \in DOMAIN results :
          /\ results[i] = None /\ i \notin SeqToSet(completion)
          /\ \E r \in CommentResponses(comment_calls[i]) :
                results' = [results EXCEPT ![i] = Some(r)]
          /\ completion' = Append(completion, i)
    /\ UNCHANGED <<pvars, batch, epc, ticket_users, user_calls, comment_calls,
                   composites, eexc, calls>>

\* One of the comment fetches raises: gather hands the first exception on to
\* _build_enriched_tickets, which does not catch it; the other fetches go on.
CommentFetchFail ==
    /\ epc \in {"gather", "raised"}
    /\ \E i \in DOMAIN results :
          /\ results[i] = None /\ i \notin SeqToSet(completion)
          /\ completion' = Append(completion, i)
          /\ IF epc = "gather"
             THEN \E e \in TransportErrors : eexc' = Some(e)
             ELSE eexc' = eexc
    /\ epc' = "raised"
    /\ UNCHANGED <<pvars, batch, ticket_users, user_calls, comment_calls, results,
                   composites, calls>>

\* Variant of Assemble that waits for every fetch and returns the composites
\* of those that succeeded, as gather(..., return_exceptions=True) would allow.
Assemble_SkipFailed ==
    /\ epc \in {"gather", "raised"}
    /\ results # <<>>
    /\ Len(completion) = Len(results)
    /\ LET valid == ValidTickets(batch)
           ok == SelectSeq([i \in DOMAIN results |-> i], LAMBDA i : results[i] # None) IN
       composites' = [k \in DOMAIN ok |->
                         EnrichedTicket(valid[ok[k]], ticket_users, Val(results[ok[k]]))]
    /\ epc' = "returned"
    /\ UNCHANGED <<pvars, batch, ticket_users, user_calls, comment_calls, results,
                   completion, eexc, calls>>

\* gather has all results: the loop over zip(valid_tickets, results).
Assemble ==
    /\ epc = "gather"
    /\ \A i \in DOMAIN results : results[i] # None
    /\ composites' = ZipResults(ValidTickets(batch), results, completion, ticket_users)
    /\ epc' = "returned"
    /\ UNCHANGED <<pvars, batch, ticket_users, user_calls, comment_calls, results,
                   completion, eexc, calls>>

\* --------------------------------------------- TicketsClient.get_enriched
\* The ticket ids a caller asks get_enriched for.
RequestedIds == {100 + i : i \in 1..MaxTickets}

\* get_enriched: tickets/{ticket_id}.json, include=users
TicketCall(tid) == Call(<<"tickets", tid, ".json">>, "include" :> "users")

\* response["ticket"] of that GET: the ticket, with its id or (a body the
\* Ticket model accepts as well) without one.
SingleTickets(tid) ==
    {[t EXCEPT !.id = i] : t \in TicketProfiles, i \in {None, Some(tid)}}

\* _extract_users_from_response of the ticket response: the sideloaded users,
\* which may be the users the ticket references, some more, or none.
SideloadedUsers(t) ==
    {[u \in S |-> User(u, <<"ticket">>)] :
        S \in {TicketUserIds(t), TicketUserIds(t) \cup {60, 70}, {}}}

\* raise ValueError("Ticket must have an ID to fetch full data")
ValueError ==
    [type |-> "ValueError", status_code |-> 0,
     message |-> <<"Ticket must have an ID to fetch full data">>]

\* Variant of EnrichedSingle in which the ticket-side record wins.
EnrichedSingle_TicketSideWins(ticket, tusers, res) ==
    [ticket |-> ticket, comments |-> res.comments, users |-> tusers @@ res.users]

\* _build_enriched_ticket: all_users = {**ticket_users, **comment_users}
EnrichedSingle(ticket, tusers, res) ==
    [ticket |-> ticket, comments |-> res.comments, users |-> res.users @@ tusers]

\* get_enriched(ticket_id): the GET of the ticket is issued.
SingleStart ==
    /\ epc = "single"
    /\ \E tid \in RequestedIds : calls' = Append(calls, TicketCall(tid))
    /\ epc' = "s_ticket"
    /\ UNCHANGED <<pvars, batch, ticket_users, user_calls, comment_calls, results,
                   completion, composites, eexc>>

\* The ticket GET answers: Ticket(**response["ticket"]) and the sideloaded users.
SingleTicketOk ==
    /\ epc = "s_ticket"
    /\ \E t \in SingleTickets(calls[1].path[2]) :
          /\ batch' = <<t>>
          /\ \E tu \in SideloadedUsers(t) : ticket_users' = tu
    /\ epc' = "s_build"
    /\ UNCHANGED <<pvars, user_calls, comment_calls, results, completion, composites,
                   eexc, calls>>

\* The ticket GET raises: get_enriched does not catch.
SingleTicketFail ==
    /\ epc = "s_ticket"
    /\ \E e \in TransportErrors : eexc' = Some(e)
    /\ epc' = "raised"
    /\ UNCHANGED <<pvars, batch, ticket_users, user_calls, comment_calls, results,
                   completion, composites, calls>>

\* _build_enriched_ticket: `if ticket.id is None: raise ValueError(...)`
SingleNoId ==
    /\ epc = "s_build" /\ batch[1].id = None
    /\ eexc' = Some(ValueError)
    /\ epc' = "raised"
    /\ UNCHANGED <<pvars, batch, ticket_users, user_calls, comment_calls, results,
                   completion, composites, calls>>

\* Variant of SingleFetchComments that resolves the ticket's users by a call
\* of its own before it fetches the comments.
SingleFetchComments_UserLookup ==
    /\ epc = "s_build" /\ batch[1].id # None
    /\ comment_calls' = <<Val(batch[1].id)>>
    /\ calls' = calls \o <<ShowManyCall(ListOfSet(TicketUserIds(batch[1]))),
                            CommentsCall(Val(batch[1].id))>>
    /\ results' = <<None>>
    /\ epc' = "s_comments"
    /\ UNCHANGED <<pvars, batch, ticket_users, user_calls, completion, composites, eexc>>

\* _build_enriched_ticket: await self._fetch_comments_with_users(ticket.id)
SingleFetchComments ==
    /\ epc = "s_build" /\ batch[1].id # None
    /\ comment_calls' = <<Val(batch[1].id)>>
    /\ calls' = Append(calls, CommentsCall(Val(batch[1].id)))
    /\ results' = <<None>>
    /\ epc' = "s_comments"
    /\ UNCHANGED <<pvars, batch, ticket_users, user_calls, completion, composites, eexc>>

\* The comments GET answers: the composite is returned.
SingleCommentsOk ==
    /\ epc = "s_comments"
    /\ \E r \in CommentResponses(comment_calls[1]) :
          /\ results' = <<Some(r)>>
          /\ composites' = <<EnrichedSingle(batch[1], ticket_users, r)>>
    /\ completion' = <<1>>
    /\ epc' = "returned"
    /\ UNCHANGED <<pvars, batch, ticket_users, user_calls, comment_calls, eexc, calls>>

\* The comments GET raises: nothing catches.
SingleCommentsFail ==
    /\ epc = "s_comments"
    /\ \E e \in TransportErrors : eexc' = Some(e)
    /\ completion' = <<1>>
    /\ epc' = "raised"
    /\ UNCHANGED <<pvars, batch, ticket_users, user_calls, comment_calls, results,
                   composites, calls>>

\* ------------------------- search_enriched, the enrichment of each page
\* What the tickets of one search page are like: all with an id and a
\* requester, all with an id and no user at all, the first one without an id,
\* or all without an id.
Flavours == {"users", "nobody", "first_no_id", "no_ids"}

\* Ticket(**item) of a search result: item i of page k has the id 100k + i.
StreamTicket(item, f) ==
    Ticket(IF f = "no_ids" \/ (f = "first_no_id" /\ item[2] = 1)
           THEN None ELSE Some(100 * item[1] + item[2]),
           IF f = "nobody" THEN None ELSE Some(10),
           None, None, {}, {})

StreamBatches(items) ==
    {[j \in DOMAIN items |-> StreamTicket(items[j], f)] : f \in Flavours}

\* search_enriched: the tickets of the page are built and handed to
\* _collect_user_ids_from_tickets / _fetch_users_batch.
SEBatchStart ==
    /\ op = "stream" /\ pc = "se_enrich" /\ epc = "off"
    /\ batch' \in StreamBatches(pending)
    /\ epc' = "users"
    /\ pc' = "se_enriching"
    /\ UNCHANGED <<op, limit, pg, pending, yielded, out, count, requests, pages,
                   last_response, transport_error, exc, iter_base, same_count,
                   ticket_users, user_calls, comment_calls, results, completion,
                   composites, eexc, calls>>

\* enriched_batch = await self._build_enriched_tickets(...) has returned: the
\* composites are what the loop yields from; tickets, user_ids and
\* ticket_users of this page are not used again.
SEBatchReturn ==
    /\ pc = "se_enriching" /\ epc = "returned"
    /\ pending' = composites
    /\ epc' = "off"
    /\ batch' = <<>>
    /\ ticket_users' = EmptyDict
    /\ user_calls' = <<>>
    /\ comment_calls' = <<>>
    /\ results' = <<>>
    /\ completion' = <<>>
    /\ composites' = <<>>
    /\ pc' = IF composites # <<>> THEN "se_batch" ELSE "se_check"
    /\ UNCHANGED <<op, limit, pg, yielded, out, count, requests, pages, last_response,
                   transport_error, exc, iter_base, same_count, eexc, calls>>

\* Variant of SEBatchRaise that drops the page and goes on with the next one.
SEBatchRaise_Swallow ==
    /\ pc = "se_enriching" /\ epc = "raised"
    /\ pc' = "se_check"
    /\ UNCHANGED <<evars, op, limit, pg, pending, yielded, out, count, requests, pages,
                   last_response, transport_error, exc, iter_base, same_count>>

\* _fetch_users_batch or _build_enriched_tickets raised: search_enriched has
\* no handler, the exception leaves the generator.
SEBatchRaise ==
    /\ pc = "se_enriching" /\ epc = "raised"
    /\ exc' = eexc
    /\ pc' = "raised"
    /\ UNCHANGED <<evars, op, limit, pg, pending, yielded, out, count, requests, pages,
                   last_response, transport_error, iter_base, same_count>>

\* ---------------------------------------------------------- specifications
NextIter ==
    \/ IterStart
    \/ IterFetchOk
    \/ IterFetchFail
    \/ IterYield
    \/ IterResume
    \/ IterEndOfPage

NextPaginator ==
    \/ DirectGetPageOk
    \/ DirectGetPageFail
    \/ NextIter

NextEnriched ==
    \/ SEStart
    \/ SEFetchOk
    \/ SEFetchFail
    \/ SEEnrichOk
    \/ SEEnrichFail
    \/ SEYield
    \/ SEResume
    \/ SECheck

\* A paginator in the caller's hands: get_page and `async for`.
SpecPaginator == InitFrom(PaginatorEntryPoints) /\ [][NextPaginator]_vars

\* A paginator used more than once: get_page calls and iterations in any order.
NextReuse ==
    \/ RepeatGetPageOk
    \/ RepeatGetPageFail
    \/ NextIter
    \/ IterLeave

SpecReuse == InitFrom(ReuseEntryPoints) /\ [][NextReuse]_vars

\* The enrichment of one page of tickets inside search_enriched.
NextBatch ==
    \/ FetchUsersNone
    \/ FetchUsersOk
    \/ FetchUsersFail
    \/ GatherStart
    \/ CommentFetchOk
    \/ CommentFetchFail
    \/ Assemble

InitBatch ==
    /\ InitPaginator(EnrichedEntryPoints) /\ limit = None /\ pg.per_page = 1
    /\ batch \in Batches
    /\ epc = "users"
    /\ ticket_users = EmptyDict
    /\ user_calls = <<>>
    /\ comment_calls = <<>>
    /\ results = <<>>
    /\ completion = <<>>
    /\ composites = <<>>
    /\ eexc = None
    /\ calls = <<>>

SpecBatch == InitBatch /\ [][NextBatch]_vars

\* The enrichment of one ticket by get_enriched.
NextSingle ==
    \/ SingleStart
    \/ SingleTicketOk
    \/ SingleTicketFail
    \/ SingleNoId
    \/ SingleFetchComments
    \/ SingleCommentsOk
    \/ SingleCommentsFail

InitSingle ==
    /\ InitPaginator(EnrichedEntryPoints) /\ limit = None /\ pg.per_page = 1
    /\ batch = <<>>
    /\ epc = "single"
    /\ ticket_users = EmptyDict
    /\ user_calls = <<>>
    /\ comment_calls = <<>>
    /\ results = <<>>
    /\ completion = <<>>
    /\ composites = <<>>
    /\ eexc = None
    /\ calls = <<>>

\* Both enrichment paths: one ticket (get_enriched) and a batch of tickets.
InitEnrichment == InitBatch \/ InitSingle

NextEnrichment == NextBatch \/ NextSingle

SpecEnrichment == InitEnrichment /\ [][NextEnrichment]_vars

\* The streaming enriched search with the enrichment of every page: the
\* search pages, the users call and the comment fetches of each page, and the
\* composites handed to the caller one by one.
NextStream ==
    \/ SEStart
    \/ SEFetchOk
    \/ SEFetchFail
    \/ SEBatchStart
    \/ NextBatch
    \/ SEBatchReturn
    \/ SEBatchRaise
    \/ SEYield
    \/ SEResume
    \/ SECheck

InitStream == InitFrom(StreamEntryPoints) /\ pg.per_page = 1

SpecStream == InitStream /\ [][NextStream]_vars

\* The streaming enriched search.
SpecEnriched == InitFrom(EnrichedEntryPoints) /\ [][NextEnriched]_vars

\* Every sequence that takes a limit.
SpecSequences ==
    InitFrom(LimitedEntryPoints \cup EnrichedEntryPoints) /\ [][NextIter \/ NextEnriched]_vars

Init ==
    \/ InitFrom(PaginatorEntryPoints \cup ReuseEntryPoints \cup LimitedEntryPoints
                   \cup EnrichedEntryPoints \cup StreamEntryPoints)
    \/ InitBatch
    \/ InitSingle

Next == NextPaginator \/ NextReuse \/ NextEnriched \/ NextBatch \/ NextSingle \/ NextStream

Spec == Init /\ [][Next]_vars

TypeOK ==
    /\ op \in Ops
    /\ pc \in {"idle", "fetch", "page", "yielded", "done", "raised",
               "se_fetch", "se_enrich", "se_enriching", "se_batch", "se_yielded",
               "se_check"}
    /\ Len(requests) <= MaxFetches

\* ------------------------------------------------------------- properties
IterRequests == SubSeq(requests, iter_base + 1, Len(requests))

Iterating == op = "paginator" /\ pc \in {"fetch", "page", "yielded", "done", "raised"}

LastResp == Val(last_response)

\* The least n with n * p >= c.
Ceil(c, p) == CHOOSE n \in 0..c : n * p >= c /\ (n = 0 \/ (n - 1) * p < c)

Max(a, b) == IF a >= b THEN a ELSE b

\* C1: for every paginator variant, what an iteration has yielded, followed by
\* what is left of the current page, is the concatenation in fetch order of the
\* item lists of the pages it fetched (nothing dropped, duplicated or
\* reordered); a finished iteration has yielded all of it; and the iteration
\* issued one GET per fetched page (plus the one that failed, if one did).
C1_YieldsFetchedPages ==
    Iterating =>
        /\ yielded \o pending = Flatten(pages)
        /\ (pc \in {"fetch", "done", "raised"} => yielded = Flatten(pages))
        /\ Len(IterRequests) = Len(pages) + (IF transport_error = None THEN 0 ELSE 1)

C1_Witness ==
    /\ Iterating /\ pc = "done" /\ transport_error = None
    /\ Len(pages) >= 2 /\ Len(yielded) >= 3

\* C2: once an offset response of the iteration carries has_more=false, the
\* iteration only yields the remaining items of that page and then ends; it
\* issues no further GET, whatever count or next_page the response carries.
C2_OffsetStopsOnHasMoreFalse ==
    [][(/\ Iterating /\ pg.kind = "offset" /\ pc \in {"page", "yielded"}
        /\ LastResp.has_more = Some(FALSE))
       => /\ requests' = requests
          /\ pc' \in {"page", "yielded", "done"}
          /\ (pc = "page" /\ pending = <<>> => pc' = "done")
          /\ yielded' \o pending' = yielded \o pending]_vars

C2_Witness ==
    /\ Iterating /\ pg.kind = "offset" /\ pc = "done"
    /\ transport_error = None /\ pages # <<>>
    /\ LastResp.has_more = Some(FALSE)
    /\ LastResp.next_page # None
    /\ LastResp.count # None /\ Val(LastResp.count) > pg.current_page * pg.per_page
    /\ yielded = Flatten(pages) /\ Len(yielded) >= 2

\* C3: while every response of an offset iteration reports one total count C
\* and no has_more flag, the requests are page = 1, 2, ... in order, each with
\* per_page = P; there are never more than max(1, ceil(C/P)) of them, another
\* one is due only while there are fewer, and the iteration ends with exactly
\* that many.
C3_OffsetCountTermination ==
    (/\ Iterating /\ pg.kind = "offset" /\ pc # "raised"
     /\ same_count.st = "same" /\ transport_error = None)
    => LET n == Len(IterRequests)
           total == Max(1, Ceil(same_count.c, pg.per_page))
       IN /\ \A i \in 1..n : /\ IterRequests[i].params["page"] = i
                             /\ IterRequests[i].params["per_page"] = pg.per_page
          /\ n <= total
          /\ (pc = "fetch" => n < total)
          /\ (pc = "done" => n = total)

\* count=5, per_page=2: three fetches of 2 + 2 + 1 items.
C3_Witness ==
    /\ Iterating /\ pg.kind = "offset" /\ pc = "done" /\ transport_error = None
    /\ same_count = [st |-> "same", c |-> 5] /\ pg.per_page = 2
    /\ Len(IterRequests) = 3
    /\ Len(pages) = 3 /\ Len(pages[1]) = 2 /\ Len(pages[2]) = 2 /\ Len(pages[3]) = 1

\* The next cursor a cursor response reports: next_cursor, else after_cursor,
\* else the links.next URL; None when it reports none of them.
Present(o) == o # None /\ Val(o) # ""

CursorReported(resp) ==
    IF Present(resp.next_cursor) THEN resp.next_cursor
    ELSE IF Present(resp.after_cursor) THEN resp.after_cursor
    ELSE IF "next" \in DOMAIN resp.links /\ Present(resp.links["next"]) THEN resp.links["next"]
    ELSE None

NewRequest == requests'[Len(requests')]

FreshIteration == Iterating /\ iter_base = 0

\* C4 (as claimed): an iteration of a new cursor paginator sends its first
\* request without a cursor, every later request with the cursor the preceding
\* response reported, and issues no request after a response that reports none.
C4_CursorChaining ==
    [][(FreshIteration /\ pg.kind = "cursor")
       => /\ (requests' # requests /\ pages = <<>>
                => "cursor" \notin DOMAIN NewRequest.params)
          /\ (requests' # requests /\ pages # <<>>
                => /\ "cursor" \in DOMAIN NewRequest.params
                   /\ Some(NewRequest.params["cursor"]) = CursorReported(LastResp))
          /\ (pages # <<>> /\ CursorReported(LastResp) = None
                => requests' = requests /\ pc' # "fetch")]_vars

\* C5 (as claimed): every request of an export iteration carries query,
\* filter[type] and page[size] and neither per_page nor cursor; the first one
\* has no page[after]; every later one carries page[after] = meta.after_cursor
\* of the preceding response.
C5_ExportWireShape ==
    [][(FreshIteration /\ pg.kind = "export" /\ requests' # requests)
       => /\ {"query", "filter[type]", "page[size]"} \subseteq DOMAIN NewRequest.params
          /\ "per_page" \notin DOMAIN NewRequest.params
          /\ "cursor" \notin DOMAIN NewRequest.params
          /\ (pages = <<>> => "page[after]" \notin DOMAIN NewRequest.params)
          /\ (pages # <<>>
                => /\ "page[after]" \in DOMAIN NewRequest.params
                   /\ Some(NewRequest.params["page[after]"])
                        = DictGet(LastResp.meta, "after_cursor", None))]_vars

\* C6: when a page fetch of a search iteration fails with status 422 the
\* iteration is over without an exception, having yielded every item of the
\* pages before, the failed GET being its last; with any other status the
\* iteration has raised.
C6_Graceful422 ==
    (Iterating /\ pg.path = "search.json" /\ transport_error # None
        /\ Val(transport_error).type = "ZendeskHTTPException")
    => /\ Len(IterRequests) = Len(pages) + 1
       /\ IF Val(transport_error).status_code = 422
          THEN pc = "done" /\ exc = None /\ yielded = Flatten(pages)
          ELSE pc = "raised" /\ exc # None

\* A 422 on page 3 after two pages of items.
C6_Witness ==
    /\ Iterating /\ pg.path = "search.json" /\ pc = "done" /\ exc = None
    /\ transport_error = Some(HTTPException(422))
    /\ Len(IterRequests) = 3 /\ IterRequests[3].params["page"] = 3
    /\ Len(yielded) >= 2

\* C7 (as claimed): a failure of a page fetch other than a 422 reaches the
\* caller of the iteration as a pagination error that wraps the transport
\* error's message and records the page number and page size and, for the
\* cursor variants, the cursor current at the failure.
C7_ErrorContext ==
    (Iterating /\ pc = "raised")
    => /\ exc # None
       /\ Val(exc).type = "ZendeskPaginationException"
       /\ Val(exc).message = <<"Error during pagination: ">> \o Val(transport_error).message
       /\ Val(exc).page_info["page"] = pg.current_page
       /\ Val(exc).page_info["per_page"] = pg.per_page
       /\ (pg.kind \in {"cursor", "export"}
             => /\ "cursor" \in DOMAIN Val(exc).page_info
                /\ Val(exc).page_info["cursor"] = pg.next_cursor)

DirectCallFailed == op = "paginator" /\ pc = "idle" /\ exc # None

\* C8 (as claimed): a failed get_page() call reaches the caller as a
\* pagination error wrapping the transport error, with the page context.
C8_GetPageWraps ==
    DirectCallFailed
    => /\ Val(exc).type = "ZendeskPaginationException"
       /\ Val(exc).message = <<"Error during pagination: ">> \o Val(transport_error).message
       /\ Val(exc).page_info["page"] = pg.current_page

\* C8 (amended): a failed get_page() call hands the caller the transport error
\* itself, unchanged: not wrapped in a pagination error, without page context.
C8_GetPagePropagatesTransportError ==
    DirectCallFailed
    => /\ exc = transport_error
       /\ Val(exc).type # "ZendeskPaginationException"
       /\ "page_info" \notin DOMAIN Val(exc)

C8_Witness ==
    /\ DirectCallFailed
    /\ transport_error = Some(HTTPException(404))
    /\ Len(requests) = 1 /\ requests[1].params["page"] = 2

Limited == op \in {"search", "export", "search_enriched"} /\ limit # None /\ Val(limit) > 0

\* C9: a sequence called with limit L > 0 never hands out more than L items,
\* and once it has handed out the L-th it issues no further page request.
C9_LimitShortCircuit ==
    [][Limited
       => /\ Len(out) <= Val(limit) /\ Len(out') <= Val(limit)
          /\ (Len(out) = Val(limit) => requests' = requests /\ pc' \notin {"fetch", "se_fetch"})]_vars

\* limit=1 with a first page of 2 items: 1 item, 1 page fetch, more data left.
C9_Witness ==
    /\ Limited /\ limit = Some(1) /\ pc = "done"
    /\ Len(out) = 1 /\ Len(requests) = 1 /\ Len(pages[1]) = 2
    /\ HasMorePages(pg)

\* The fields of the last response that the has-more decision is specified on.
FlagOf(resp) ==
    IF pg.kind = "export" THEN DictGet(resp.meta, "has_more", None) ELSE resp.has_more

TokenOf(resp) ==
    CASE pg.kind = "offset" -> resp.next_page
      [] pg.kind = "cursor" -> CursorReported(resp)
      [] pg.kind = "export" -> DictGet(resp.meta, "after_cursor", None)

CountOf(resp) == IF pg.kind = "offset" THEN resp.count ELSE None

\* C10 (as claimed): after any response the has-more result is (a) the explicit
\* flag if present, else (b) page < ceil(count/page_size) for an offset
\* paginator that got a count, else (c) true if a next token was reported,
\* else (d) true only if the last page was not empty.
C10_HasMoreDecision ==
    (op = "paginator" /\ last_response # None)
    => LET r == LastResp
           hm == HasMorePages(pg)
       IN IF FlagOf(r) # None THEN hm = Val(FlagOf(r))
          ELSE IF CountOf(r) # None
               THEN hm = (pg.current_page < Ceil(Val(CountOf(r)), pg.per_page))
          ELSE IF TokenOf(r) # None THEN hm = TRUE
          ELSE (hm => r.items # <<>>)

\* C11 (as claimed): under the fallback, i.e. when an offset response carries
\* neither has_more nor count, the iteration stops after the first empty page:
\* once such a response came with no items the iteration ends without another
\* GET.
C11_FallbackStopsOnEmptyPage ==
    [][(/\ Iterating /\ pg.kind = "offset" /\ pc = "page" /\ pending = <<>>
        /\ pages # <<>>
        /\ LastResp.has_more = None /\ LastResp.count = None
        /\ LastResp.items = <<>>)
       => pc' = "done" /\ requests' = requests]_vars

\* C12 (as claimed): in an iteration of a cursor or export paginator no GET
\* follows a response that reports no next cursor or that reports
\* has_more=false; in particular, after has_more=true without a next cursor
\* the request of the first page is not sent again.
C12_CursorTermination ==
    [][(/\ Iterating /\ pg.kind \in {"cursor", "export"} /\ pages # <<>>
        /\ pc \in {"page", "yielded", "fetch"})
       => /\ (TokenOf(LastResp) = None \/ FlagOf(LastResp) = Some(FALSE)
                => requests' = requests /\ pc' # "fetch")
          /\ (/\ requests' # requests
              /\ FlagOf(LastResp) = Some(TRUE) /\ TokenOf(LastResp) = None
                => NewRequest # IterRequests[1])]_vars

\* A get_page call made directly by the caller of a reused instance.
DirectCall == op = "reuse" /\ pc = "idle" /\ pc' = "idle" /\ requests' # requests

\* Every request so far came from a get_page call of the caller that
\* succeeded: no iteration has fetched anything and nothing has failed.
OnlyGetPageCalls ==
    /\ op = "reuse" /\ pc = "idle" /\ requests # <<>>
    /\ iter_base = 0 /\ pages = <<>> /\ transport_error = None /\ exc = None

\* C13 (as claimed): once a response has been received and has-more has
\* evaluated to false on a paginator instance, no later get_page() call,
\* get_page(n) call or iteration makes it evaluate to true again.
C13_HasMoreMonotonic ==
    [][(op = "reuse" /\ last_response # None /\ ~HasMorePages(pg))
       => ~HasMorePages(pg')]_vars

\* C14 (as claimed): get_page(n) on an offset paginator requests page n and
\* leaves n as the current page; on a cursor or export paginator a page number
\* is never accepted, so no get_page call changes the page number there.
C14_ExplicitPage ==
    [][(op = "reuse" /\ pc = "idle" /\ pc' = "idle")
       => IF pg.kind = "offset"
          THEN requests' # requests
                 => /\ Len(requests') = Len(requests) + 1
                    /\ NewRequest.params["page"] = pg'.current_page
          ELSE pg'.current_page = pg.current_page /\ pg'.current_page = 1]_vars

\* The cursor a get_page call stores from the response it received.
CursorStored(resp) ==
    IF pg.kind = "export" THEN DictGet(resp.meta, "after_cursor", None)
    ELSE PyOr(resp.next_cursor, resp.after_cursor)

CursorParam == IF pg.kind = "export" THEN "page[after]" ELSE "cursor"

\* C15 (as claimed): of two consecutive get_page() calls without a page
\* argument the second requests the same position as the first, and the call
\* changes nothing of the paginator but the recorded pagination metadata.
C15_GetPageSamePosition ==
    [][(OnlyGetPageCalls /\ DirectCall /\ pg'.current_page = pg.current_page)
       => /\ NewRequest = requests[Len(requests)]
          /\ [pg' EXCEPT !.pagination_info = pg.pagination_info] = pg]_vars

\* C15 (amended): a get_page() call issues exactly one GET.  On an offset
\* paginator it leaves the page number alone, so the next get_page() requests
\* the same page again.  On a cursor or export paginator it stores the cursor
\* the response reports, so the next get_page() carries that cursor, i.e. it
\* requests the following position and not the same one.
C15_GetPageRecordsCursor ==
    [][(OnlyGetPageCalls /\ DirectCall /\ pg'.current_page = pg.current_page)
       => /\ requests' = Append(requests, NewRequest)
          /\ pg'.current_page = pg.current_page /\ pg'.per_page = pg.per_page
          /\ IF pg.kind = "offset"
             THEN /\ NewRequest = requests[Len(requests)]
                  /\ [pg' EXCEPT !.pagination_info = pg.pagination_info] = pg
             ELSE Truthy(CursorStored(LastResp))
                    => /\ CursorParam \in DOMAIN NewRequest.params
                       /\ NewRequest.params[CursorParam] = Val(CursorStored(LastResp))
                       /\ NewRequest # requests[1]]_vars

\* Two get_page() calls on a cursor paginator: the first without a cursor, the
\* second with the cursor "abc" that the first response reported.
C15_Witness ==
    /\ OnlyGetPageCalls /\ pg.kind = "cursor" /\ Len(requests) = 2
    /\ "cursor" \notin DOMAIN requests[1].params
    /\ "cursor" \in DOMAIN requests[2].params
    /\ requests[2].params["cursor"] = "abc"

\* C16 (as claimed): the first request of every iteration, also on an instance
\* that was used before, is the request of a fresh traversal: page=1 for an
\* offset paginator, no cursor / page[after] for a cursor or export paginator.
C16_RestartFromStart ==
    [][(/\ op = "reuse" /\ pc = "fetch" /\ pages = <<>> /\ transport_error = None
        /\ requests' # requests)
       => IF pg.kind = "offset" THEN NewRequest.params["page"] = 1
          ELSE CursorParam \notin DOMAIN NewRequest.params]_vars

\* The user ids a ticket references: requester, assignee, submitter,
\* collaborators and followers.
ReferencedBy(t) ==
    {Val(o) : o \in {t.requester_id, t.assignee_id, t.submitter_id} \ {None}}
    \cup t.collaborator_ids \cup t.follower_ids

ReferencedIds == UNION {ReferencedBy(batch[i]) : i \in DOMAIN batch}

NoDuplicates(q) == Cardinality(SeqToSet(q)) = Len(q)

UsersResolved == epc \in {"build", "gather", "raised", "returned"}

\* C17 (as claimed): for any batch the users call requests exactly the union
\* of the ids the tickets reference, each id once; there is at most one such
\* call per batch and none when no id is referenced.
C17_RequestsExactUnion ==
    UsersResolved
    => /\ Len(user_calls) <= 1
       /\ (user_calls = <<>> <=> ReferencedIds = {})
       /\ \A k \in DOMAIN user_calls :
             /\ SeqToSet(user_calls[k]) = ReferencedIds
             /\ NoDuplicates(user_calls[k])

\* C17 (amended): the same for any batch that references at most
\* MaxIdsPerCall distinct ids; a batch that references more still gets one
\* call, of referenced ids only and each id once, but not of all of them.
C17_RequestsUnionUpToCap ==
    UsersResolved
    => /\ Len(user_calls) <= 1
       /\ (user_calls = <<>> <=> ReferencedIds = {})
       /\ \A k \in DOMAIN user_calls :
             /\ SeqToSet(user_calls[k]) \subseteq ReferencedIds
             /\ (Cardinality(ReferencedIds) <= MaxIdsPerCall
                   => SeqToSet(user_calls[k]) = ReferencedIds)
             /\ NoDuplicates(user_calls[k])

\* Two tickets with the same assignee, 10, and further users in common: one
\* call, every id in it once.
C17_Witness ==
    /\ epc = "returned" /\ Len(batch) = 2
    /\ batch[1].assignee_id = Some(10) /\ batch[2].assignee_id = Some(10)
    /\ batch[1].requester_id # batch[2].requester_id
    /\ batch[2].follower_ids = {20, 50}
    /\ user_calls = << <<10, 20, 30, 40, 50>> >>

\* C18: a batch that references more than MaxIdsPerCall distinct ids gets
\* exactly one users call; it carries exactly MaxIdsPerCall ids, pairwise
\* distinct and all of them referenced; no later call asks for the others.
C18_CapBatching ==
    (UsersResolved /\ Cardinality(ReferencedIds) > MaxIdsPerCall)
    => /\ Len(user_calls) = 1
       /\ Len(user_calls[1]) = MaxIdsPerCall
       /\ NoDuplicates(user_calls[1])
       /\ SeqToSet(user_calls[1]) \subseteq ReferencedIds

\* More ids than the cap, two of them referenced more than once: the batch is
\* done after one call of MaxIdsPerCall ids.
C18_Witness ==
    /\ epc = "returned" /\ Len(composites) = 1
    /\ Cardinality(ReferencedIds) > MaxIdsPerCall
    /\ batch[1].requester_id = batch[1].assignee_id
    /\ Val(batch[1].requester_id) \in batch[1].collaborator_ids
    /\ Len(user_calls) = 1 /\ Len(user_calls[1]) = MaxIdsPerCall

\* C19: the user map of each composite holds the users the batch call
\* resolved among the ids that ticket itself references, and the users
\* sideloaded with that ticket's own comments; nobody else.
C19_UserMapScoped ==
    epc = "returned"
    => \A i \in DOMAIN composites :
          LET c == composites[i] IN
          /\ DOMAIN c.users =
                (ReferencedBy(c.ticket) \cap DOMAIN ticket_users)
                \cup DOMAIN Val(results[i]).users
          /\ \A u \in DOMAIN c.users :
                u \in ReferencedBy(c.ticket) \/ u \in DOMAIN Val(results[i]).users

\* Ticket A references only user 10, ticket B only user 20, one call resolves
\* both: A's map is {10}, B's map is {20}.
C19_Witness ==
    /\ epc = "returned" /\ Len(composites) = 2
    /\ ReferencedBy(composites[1].ticket) = {10}
    /\ ReferencedBy(composites[2].ticket) = {20}
    /\ DOMAIN ticket_users = {10, 20}
    /\ DOMAIN composites[1].users = {10}
    /\ DOMAIN composites[2].users = {20}

\* C20: whatever the order in which the comment fetches complete, the batch
\* enrichment returns one composite per ticket with an id, in input order, and
\* composite i carries the comments and comment users of the fetch issued for
\* ticket i, never those of another ticket.
C20_OrderedUnderConcurrency ==
    epc = "returned"
    => LET valid == ValidTickets(batch) IN
       /\ Len(composites) = Len(valid)
       /\ \A i \in DOMAIN composites :
             LET c == composites[i] IN
             /\ c.ticket = valid[i]
             /\ comment_calls[i] = Val(c.ticket.id)
             /\ c.comments = Val(results[i]).comments
             /\ \A k \in DOMAIN c.comments : c.comments[k].ticket_id = Val(c.ticket.id)
             /\ \A u \in DOMAIN Val(results[i]).users :
                   c.users[u] = Val(results[i]).users[u]
             /\ \A u \in DOMAIN c.users :
                   c.users[u].from \in {<<"show_many">>, <<"comments", Val(c.ticket.id)>>}

\* The fetch for the second ticket completes first; both have comments.
C20_Witness ==
    /\ epc = "returned" /\ Len(composites) = 2
    /\ completion = <<2, 1>>
    /\ composites[1].comments # <<>> /\ composites[2].comments # <<>>
    /\ composites[1].ticket.id = Some(101) /\ composites[2].ticket.id = Some(102)

\* C21: in a batch enrichment of N tickets with an id all N comments GETs are
\* issued before any of them has completed or been consumed: while gather
\* waits, and from the first completion on, the GETs issued are exactly those
\* of the N tickets, in order; the batch result exists only once every one of
\* the N fetches has completed.
C21_FanOutBeforeFanIn ==
    LET valid == ValidTickets(batch)
        ids == [i \in DOMAIN valid |-> Val(valid[i].id)] IN
    /\ (epc \in {"gather", "returned"} \/ completion # <<>>) =>
          /\ comment_calls = ids
          /\ DOMAIN results = DOMAIN valid
          /\ SelectSeq(calls, LAMBDA c : c.path[1] = "tickets")
                = [i \in DOMAIN ids |-> CommentsCall(ids[i])]
    /\ epc = "returned" =>
          /\ \A i \in DOMAIN valid : results[i] # None
          /\ Len(composites) = Len(valid)
    /\ epc # "returned" => composites = <<>>

\* All fetches of a batch of at least two tickets are in flight at once.
C21_Witness ==
    /\ epc = "gather"
    /\ Len(comment_calls) >= 2
    /\ Len(comment_calls) = Len(ValidTickets(batch))
    /\ completion = <<>>
    /\ \A i \in DOMAIN results : results[i] = None

\* The enrichment under way is the one of get_enriched.
SinglePath ==
    \/ epc = "single"
    \/ calls # <<>> /\ calls[1] \in {TicketCall(t) : t \in RequestedIds}

\* C22: get_enriched issues no users call; its first GET is the ticket with
\* include=users; the second, issued only once the first has answered, is the
\* GET of that ticket's comments with include=users; there is no third, and
\* a composite is returned after exactly these two.
C22_SingleTwoCalls ==
    SinglePath =>
        /\ user_calls = <<>>
        /\ Len(calls) <= 2
        /\ \A i \in DOMAIN calls : calls[i].params = "include" :> "users"
        /\ epc = "s_ticket" => Len(calls) = 1
        /\ Len(calls) = 2 =>
              /\ batch # <<>>
              /\ calls[1] = TicketCall(Val(batch[1].id))
              /\ calls[2] = CommentsCall(Val(batch[1].id))
        /\ epc = "returned" => Len(calls) = 2 /\ Len(composites) = 1
        /\ epc # "returned" => composites = <<>>

\* get_enriched has returned a composite of a ticket that references users.
C22_Witness ==
    /\ SinglePath /\ epc = "returned"
    /\ Len(calls) = 2
    /\ TicketUserIds(batch[1]) # {}

\* The ticket-side users of a composite: in get_enriched the users sideloaded
\* with the ticket, in a batch the users of the batch map the ticket references.
TicketSide(c) ==
    IF SinglePath THEN ticket_users ELSE Restrict(ticket_users, TicketUserIds(c.ticket))

\* C23: in get_enriched and in the batch enrichment alike the user map of a
\* composite has exactly the ids of the ticket-side users and of the users
\* sideloaded with the ticket's comments; an id on both sides carries the
\* record of the comments response, every other id the record of its side.
C23_UserMapUnion ==
    epc = "returned" =>
        \A i \in DOMAIN composites :
            LET c == composites[i]
                cside == Val(results[i]).users
                tside == TicketSide(c) IN
            /\ DOMAIN c.users = DOMAIN tside \cup DOMAIN cside
            /\ \A u \in DOMAIN cside : c.users[u] = cside[u]
            /\ \A u \in DOMAIN tside \ DOMAIN cside : c.users[u] = tside[u]

\* get_enriched returned a composite whose ticket and comments both brought a
\* record of user 10 and whose ticket brought users the comments did not.
C23_Witness ==
    /\ SinglePath /\ epc = "returned"
    /\ \E u \in DOMAIN ticket_users \cap DOMAIN Val(results[1]).users :
          /\ ticket_users[u] # Val(results[1]).users[u]
          /\ composites[1].users[u] = Val(results[1]).users[u]
    /\ DOMAIN ticket_users \ DOMAIN Val(results[1]).users # {}

\* C24: a batch with tickets that have no id does not fail on their account:
\* comments are fetched for the tickets with an id only, and the composites
\* returned are those of the tickets with an id, in the order of the batch.
\* In get_enriched a ticket without an id ends the call with the ValueError,
\* with no comments GET issued and no composite.
C24_MissingIdBatchVsSingle ==
    IF SinglePath
    THEN (batch # <<>> /\ batch[1].id = None) =>
            /\ epc \in {"s_build", "raised"}
            /\ epc = "raised" => eexc = Some(ValueError)
            /\ comment_calls = <<>>
            /\ \A i \in DOMAIN calls : calls[i] # CommentsCall(calls[1].path[2])
            /\ Len(calls) = 1
            /\ composites = <<>>
    ELSE LET valid == SelectSeq(batch, LAMBDA t : t.id # None) IN
         /\ \A i \in DOMAIN comment_calls :
               /\ i <= Len(valid)
               /\ comment_calls[i] = Val(valid[i].id)
         /\ epc \in {"gather", "returned"} => Len(comment_calls) = Len(valid)
         /\ epc = "returned" =>
               /\ Len(composites) = Len(valid)
               /\ \A i \in DOMAIN valid : composites[i].ticket = valid[i]
         /\ eexc # None => Val(eexc) \in TransportErrors

\* A batch whose first ticket has no id and whose later ticket has one was
\* enriched: one composite, the one of the later ticket.
C24_Witness ==
    /\ ~SinglePath /\ epc = "returned"
    /\ Len(batch) >= 2
    /\ batch[1].id = None
    /\ \E i \in DOMAIN batch : batch[i].id # None
    /\ composites # <<>>
    /\ Len(composites) < Len(batch)

\* The enrichment raised out of its users call: that GET is the last one issued.
UsersCallFailed ==
    /\ epc = "raised"
    /\ calls # <<>>
    /\ calls[Len(calls)].path[1] = "users/show_many.json"

\* C25: when the users/show_many call of a page fails, the enriched search
\* ends with that error at the caller: no comments GET is issued for a ticket
\* of the page, no composite of the page is built or handed to the caller, and
\* the stream does not go on.
C25_UsersFailureFailsAll ==
    UsersCallFailed =>
        /\ eexc \in {Some(e) : e \in TransportErrors}
        /\ pc \in {"se_enriching", "raised"}
        /\ pc = "raised" => exc = eexc
        /\ comment_calls = <<>>
        /\ \A i \in DOMAIN calls, j \in DOMAIN batch :
              calls[i].path[1] = "tickets" => Some(calls[i].path[2]) # batch[j].id
        /\ composites = <<>>
        /\ \A i \in DOMAIN out : \A j \in DOMAIN batch : out[i].ticket # batch[j]

\* The users call of the second page failed after the composites of the first
\* page had been handed to the caller.
C25_Witness ==
    /\ UsersCallFailed /\ pc = "raised"
    /\ Len(requests) = 2
    /\ out # <<>>
    /\ \E j \in DOMAIN batch : batch[j].id # None

\* C26: a search page of the enriched search that fails with anything but a
\* 422 ends the stream with an exception at the caller.
C26_PageErrorSurfaces ==
    (/\ op = "stream"
     /\ transport_error # None
     /\ Val(transport_error) # HTTPException(422))
        => pc = "raised" /\ exc # None

\* The tickets with an id among a batch.
Identified(tickets) == SelectSeq(tickets, LAMBDA t : t.id # None)

\* C27: a search page is requested only when no enrichment is under way and no
\* composite of the page before waits to be handed over; a GET of the
\* enrichment is issued only for a page that has tickets; and when the
\* enrichment of a page returns, it has made at most one users call and exactly
\* one comments GET per ticket with an id, all of them completed.
C27_PageAtATime ==
    [][/\ requests' # requests =>
             /\ pc = "se_fetch"
             /\ epc = "off"
             /\ pending = <<>>
             /\ \A i \in DOMAIN results : results[i] # None
       /\ calls' # calls =>
             /\ pc = "se_enriching"
             /\ SelectSeqBy(pages[Len(pages)], "ticket") # <<>>
             /\ Len(batch) = Len(SelectSeqBy(pages[Len(pages)], "ticket"))
             /\ requests' = requests
       /\ (epc # "returned" /\ epc' = "returned") =>
             /\ Len(user_calls') <= 1
             /\ Len(comment_calls') = Len(Identified(batch'))
             /\ \A i \in DOMAIN results' : results'[i] # None
             /\ Len(composites') = Len(Identified(batch'))
       /\ Len(user_calls') <= 1
       /\ Len(comment_calls') <= Len(Identified(batch'))
      ]_vars

\* The second search page is being enriched after both composites of the
\* first page, which cost a users call and two comment fetches, were handed on.
C27_Witness ==
    /\ op = "stream" /\ Len(requests) = 2
    /\ Len(out) >= 2
    /\ epc = "gather"
    /\ Len(calls) >= 3 + Len(user_calls) + Len(comment_calls)
    /\ out[1].ticket.id = Some(101) /\ out[2].ticket.id = Some(102)

\* C28: whatever the paginator variant and the listing, and on whichever page,
\* a page fetch of an iteration that fails with status 422 ends the iteration
\* without an exception: the failed GET is the last one, and the caller has
\* been given the items of the pages before it and nothing else.
C28_422EndsEveryVariant ==
    (Iterating /\ transport_error = Some(HTTPException(422)))
    => /\ pc = "done"
       /\ exc = None
       /\ Len(IterRequests) = Len(pages) + 1
       /\ yielded = Flatten(pages)

\* A 422 on the very first page of the users listing: nothing yielded, no
\* exception.
C28_Witness ==
    /\ Iterating /\ pg.path = "users.json" /\ pg.kind = "offset"
    /\ transport_error = Some(HTTPException(422))
    /\ Len(IterRequests) = 1
    /\ pc = "done" /\ exc = None /\ yielded = <<>>

\* C29 (as claimed): in an iteration of a cursor paginator a response without
\* next_cursor and after_cursor, without a has_more flag, and with links.next
\* present but null is the last one: no request follows it, and no request
\* ever carries a cursor made from the null link.
C29_NullLinkEndsIteration ==
    [][(/\ Iterating /\ pg.kind = "cursor" /\ pages # <<>>
        /\ LastResp.next_cursor = None /\ LastResp.after_cursor = None
        /\ LastResp.has_more = None
        /\ LastResp.links = "next" :> None)
       => /\ requests' = requests
          /\ pc' # "fetch"
          /\ \A i \in DOMAIN requests' :
                "cursor" \in DOMAIN requests'[i].params
                    => requests'[i].params["cursor"] # PyStr(None)]_vars

\* The comment fetches that have raised, and those still in flight.
FailedFetches == {i \in SeqToSet(completion) : results[i] = None}
InFlight == {i \in DOMAIN results : i \notin SeqToSet(completion)}

\* C30: once a comment fetch of a batch has raised, the batch enrichment has
\* raised a transport error and never returns: there is no composite, not even
\* of a ticket whose own fetch succeeded; and a fetch still in flight at that
\* time can go on to complete.
C30_AllOrNothing ==
    FailedFetches # {} =>
        /\ epc = "raised"
        /\ eexc \in {Some(e) : e \in TransportErrors}
        /\ composites = <<>>
        /\ InFlight # {} => ENABLED CommentFetchOk

\* The first fetch to complete raised, and a fetch of another ticket then
\* completed with its comments.
C30_Witness ==
    /\ epc = "raised"
    /\ Len(completion) >= 2
    /\ results[completion[1]] = None
    /\ results[completion[2]] # None
    /\ Val(results[completion[2]]).comments # <<>>
====
